---- MODULE Spec2Model ----
(***************************************************************************)
(* Model of update_sheet.py: the calling-submission sheet is read, renamed *)
(* and filtered, the progress sheet is blanked and rewritten, the outcome  *)
(* is logged, the log is trimmed and its last line mirrored into README.   *)
(*                                                                         *)
(* Strings are TLA+ strings (Len, SubSeq, Head, Tail and \o act on them).  *)
(* A sheet is the rectangular list of rows gspread's get_values returns.   *)
(* A DataFrame is a record [columns, values]; values are the rows, each    *)
(* aligned with columns.  A text file read with readlines is the list of   *)
(* its lines, each with its line ending.                                   *)
(***************************************************************************)
EXTENDS Integers, Sequences, FiniteSets, TLC

VARIABLES
    pc,           \* position of main(), or of the function under study
    run,          \* number of the current invocation of main()
    form,         \* values of the form-responses sheet (source)
    dest,         \* cells of the Calling_Approval_Progress sheet (destination)
    log,          \* lines of log.txt
    readme,       \* content of README.md
    calling_df,   \* DataFrame returned by make_callings_data
    updated_df,   \* DataFrame returned by get_filtered_data
    raised_at,    \* the step of the try block that raised in this run ("" if none)
    hist          \* history of the run: what the files and sheets held at its start

vars == <<pc, run, form, dest, log, readme, calling_df, updated_df, raised_at, hist>>

------------------------------------------------------------------------------
(* Bounds of the model *)

MaxRows == 2        \* data rows of the source sheet
MaxDestRows == 5    \* data rows the destination sheet holds before a run
MaxRuns == 2        \* consecutive invocations of main()
MaxLogLen == 25     \* lines of log.txt handed to trim_logs alone

------------------------------------------------------------------------------
(* Python str and list helpers *)

Max(a, b) == IF a >= b THEN a ELSE b

Last(s) == s[Len(s)]

\* str.isspace for one character
IsSpace(c) == c \in {" ", "\t", "\n", "\r", "\f"}

RECURSIVE LStrip(_)
LStrip(s) == IF s = "" THEN "" ELSE IF IsSpace(Head(s)) THEN LStrip(Tail(s)) ELSE s

RECURSIVE RStrip(_)
RStrip(s) ==
    IF s = "" THEN ""
    ELSE IF IsSpace(SubSeq(s, Len(s), Len(s))) THEN RStrip(SubSeq(s, 1, Len(s) - 1))
    ELSE s

\* str.strip()
Strip(s) == RStrip(LStrip(s))

UpperChars == "ABCDEFGHIJKLMNOPQRSTUVWXYZ"
LowerChars == "abcdefghijklmnopqrstuvwxyz"

LowerChar(c) ==
    LET hits == {i \in 1..Len(UpperChars) : SubSeq(UpperChars, i, i) = c}
    IN  IF hits = {} THEN c
        ELSE LET i == CHOOSE i \in hits : TRUE IN SubSeq(LowerChars, i, i)

\* str.lower()
RECURSIVE Lower(_)
Lower(s) == IF s = "" THEN "" ELSE LowerChar(Head(s)) \o Lower(Tail(s))

\* str.split(sep): cut at each occurrence of sep, scanning from the left
RECURSIVE Split(_, _)
Split(s, sep) ==
    LET hits == {i \in 1..(Len(s) - Len(sep) + 1) : SubSeq(s, i, i + Len(sep) - 1) = sep}
    IN  IF hits = {} THEN <<s>>
        ELSE LET i == CHOOSE i \in hits : \A j \in hits : i <= j
             IN  <<SubSeq(s, 1, i - 1)>> \o Split(SubSeq(s, i + Len(sep), Len(s)), sep)

\* sep.join(parts)
RECURSIVE Join(_, _)
Join(parts, sep) ==
    IF Len(parts) = 0 THEN ""
    ELSE IF Len(parts) = 1 THEN parts[1]
    ELSE parts[1] \o sep \o Join(Tail(parts), sep)

\* Mutant of DelIndex: the index taken as 1-based
DelIndex_OneBased(lst, i) ==
    IF i > Len(lst) \/ i < 1 THEN [ok |-> FALSE, list |-> lst]
    ELSE [ok |-> TRUE, list |-> SubSeq(lst, 1, i - 1) \o SubSeq(lst, i + 1, Len(lst))]

\* del lst[i] with the 0-based index i of Python; ok is FALSE on IndexError
DelIndex(lst, i) ==
    IF i + 1 > Len(lst) THEN [ok |-> FALSE, list |-> lst]
    ELSE [ok |-> TRUE, list |-> SubSeq(lst, 1, i) \o SubSeq(lst, i + 2, Len(lst))]

Digits == "0123456789"

IsDigits(s) ==
    /\ Len(s) > 0
    /\ \A i \in 1..Len(s) : \E k \in 1..Len(Digits) : SubSeq(Digits, k, k) = SubSeq(s, i, i)

DigitVal(c) == (CHOOSE k \in 1..Len(Digits) : SubSeq(Digits, k, k) = c) - 1

RECURSIVE ToInt(_)
ToInt(s) == IF s = "" THEN 0 ELSE 10 * ToInt(SubSeq(s, 1, Len(s) - 1)) + DigitVal(SubSeq(s, Len(s), Len(s)))

------------------------------------------------------------------------------
(* DataFrame helpers (pandas) *)

\* The value pandas gives where a string method has no result (NaN).  It is
\* longer than one character, so it differs from every value of .str[0].
NaN == "<NaN>"

\* The marker of an element-wise operation that raised.
Raised == "<raised>"

HasCol(df, name) == \E i \in 1..Len(df.columns) : df.columns[i] = name

ColIndex(df, name) ==
    CHOOSE i \in 1..Len(df.columns) :
        /\ df.columns[i] = name
        /\ \A j \in 1..Len(df.columns) : df.columns[j] = name => i <= j

\* df[name] as the list of its values
Col(df, name) == [r \in 1..Len(df.values) |-> df.values[r][ColIndex(df, name)]]

\* df[name] = vals : an existing column is overwritten, a new one is appended
SetCol(df, name, vals) ==
    IF HasCol(df, name)
    THEN [df EXCEPT !.values =
            [r \in 1..Len(df.values) |-> [df.values[r] EXCEPT ![ColIndex(df, name)] = vals[r]]]]
    ELSE [df EXCEPT !.columns = Append(df.columns, name),
                    !.values = [r \in 1..Len(df.values) |-> Append(df.values[r], vals[r])]]

\* The result of a function that raised: no DataFrame.
NoFrame == [ok |-> FALSE, columns |-> <<>>, values |-> <<>>]

------------------------------------------------------------------------------
(* Schema Mapper: make_callings_data *)

simplified_name_map ==
    ("What is the Name of the Proposed Calling (please refer to General Handbook (https://www.churchofjesuschrist.org/study/manual/general-handbook/30-callings-in-the-church?lang=eng#title_number125) and Callings and Trainings (https://www.churchofjesuschrist.org/callings?lang=eng) for a reference on duties and authorized names for callings)?" :> "Calling")
    @@ ("Full Name of the Person Proposed for the Calling:" :> "PersonToCall")
    @@ ("Will this Require they be Released from a Current Calling?" :> "ReleaseRequired")
    @@ ("Name of the Proposed Organization to which the Person would be Called:" :> "Organization")
    @@ ("Once Again, Will this Require they be Released from a Current Calling?" :> "ReleaseRequired2")
    @@ ("If You Know, from which Organization are you Requesting this Person?" :> "CurrentOrganization")
    @@ ("Name of Person Submitting the Form" :> "FormSubmittedBy")
    @@ ("Ideal Date for Proposed Person to Begin Service" :> "IdealStartDate")
    @@ ("Does this Proposal Require Someone Else be Released from the Calling You are Asking to Fill?" :> "ReleaseCurrentlyServing")
    @@ ("Name of the Person Who Needs to be Released from this Calling:" :> "CurrentlyServing")
    @@ ("Is this Person Moving?" :> "Moving?")
    @@ ("Date they are Moving:" :> "MovingDate")
    @@ ("Any Additional Comments:" :> "Comments")
    @@ ("Calling Approval " :> "BishopApproval")
    @@ ("Calling extended and accepted" :> "ExtendedAndAccepted")

\* DataFrame.rename(columns=...): a header the map lacks is kept as it is
Rename(h) == IF h \in DOMAIN simplified_name_map THEN simplified_name_map[h] ELSE h

\* pd.to_datetime on the timestamps the form writes, "M/D/YYYY H:MM:SS":
\* the date fields of a parsable value, ok = FALSE for a value that is no date.
ParseTimestamp(ts) ==
    LET date == Split(Strip(ts), " ")[1]
        f == Split(date, "/")
        good == /\ Len(f) = 3
                /\ \A i \in 1..3 : IsDigits(f[i])
                /\ Len(f[1]) <= 2 /\ Len(f[2]) <= 2 /\ Len(f[3]) = 4
                /\ ToInt(f[1]) \in 1..12
                /\ ToInt(f[2]) \in 1..31
    IN  IF good THEN [ok |-> TRUE, month |-> ToInt(f[1]), day |-> ToInt(f[2]), year |-> ToInt(f[3])]
        ELSE [ok |-> FALSE, month |-> 0, day |-> 0, year |-> 0]

Pad2(n) == IF n < 10 THEN "0" \o ToString(n) ELSE ToString(n)

\* .dt.strftime("%m/%d/%Y")
Strftime(d) == Pad2(d.month) \o "/" \o Pad2(d.day) \o "/" \o ToString(d.year)

\* Mutant of StrGet0: indexing the empty string raises, as s[0] does in Python
StrGet0_Raises(s) == IF s = "" THEN Raised ELSE SubSeq(s, 1, 1)

\* Series.str[0]: the first character, NaN for the empty string
StrGet0(s) == IF s = "" THEN NaN ELSE SubSeq(s, 1, 1)

\* .str.strip().str.lower().str[0]
CleanedApprovalText(s) == StrGet0(Lower(Strip(s)))

make_callings_data(form_data) ==
    IF Len(form_data) = 0 THEN NoFrame                       \* form_data[0]: IndexError
    ELSE
    LET df0 == [ok |-> TRUE,
                columns |-> [i \in 1..Len(form_data[1]) |-> Rename(form_data[1][i])],
                values |-> Tail(form_data)]
        n == Len(df0.values)
        df1 == SetCol(df0, "ScheduledMeetingWith", [r \in 1..n |-> ""])
    IN  IF ~HasCol(df1, "Timestamp") THEN NoFrame            \* KeyError
        ELSE IF \E r \in 1..n : ~ParseTimestamp(Col(df1, "Timestamp")[r]).ok
             THEN NoFrame                                    \* the parser raises
        ELSE
        LET df2 == SetCol(df1, "DateRequested",
                          [r \in 1..n |-> Strftime(ParseTimestamp(Col(df1, "Timestamp")[r]))])
        IN  IF ~HasCol(df2, "BishopApproval") THEN NoFrame   \* KeyError
            ELSE
            LET cleaned == [r \in 1..n |-> CleanedApprovalText(Col(df2, "BishopApproval")[r])]
            IN  IF \E r \in 1..n : cleaned[r] = Raised THEN NoFrame
                ELSE SetCol(df2, "cleaned_approval_text", cleaned)

------------------------------------------------------------------------------
(* Row Filter: get_filtered_data *)

keeps ==
    <<"DateRequested", "PersonToCall", "Calling", "Organization", "FormSubmittedBy",
      "IdealStartDate", "BishopApproval", "ExtendedAndAccepted", "Sustained", "Set Apart">>

\* Mutant of RowMask: the Recorded test left out
RowMask_ApprovalOnly(df, row) == row[ColIndex(df, "cleaned_approval_text")] = "y"

\* The boolean mask of .loc: bishop approved, not yet recorded
RowMask(df, row) ==
    /\ row[ColIndex(df, "cleaned_approval_text")] = "y"
    /\ row[ColIndex(df, "Recorded")] = ""

\* The column selection of .loc
Project(df, row) == [k \in 1..Len(keeps) |-> row[ColIndex(df, keeps[k])]]

get_filtered_data(df) ==
    IF \/ ~HasCol(df, "cleaned_approval_text")
       \/ ~HasCol(df, "Recorded")
       \/ \E k \in 1..Len(keeps) : ~HasCol(df, keeps[k])
    THEN NoFrame                                             \* KeyError
    ELSE LET Keep(row) == RowMask(df, row)
             kept == SelectSeq(df.values, Keep)
         IN  [ok |-> TRUE,
              columns |-> keeps,
              values |-> [r \in 1..Len(kept) |-> Project(df, kept[r])]]

\* [df.columns.values.tolist()] + df.values.tolist()
ToRows(df) == <<df.columns>> \o df.values

------------------------------------------------------------------------------
(* The spreadsheet capability (gspread worksheet) *)

Width(rows) == IF Len(rows) = 0 THEN 0 ELSE Len(rows[1])

CellAt(rows, r, c) == IF r <= Len(rows) /\ c <= Len(rows[r]) THEN rows[r][c] ELSE ""

\* worksheet.get_values(): the cells up to the last row and the last column
\* that hold a value, as a rectangle; blank trailing rows and columns are cut
get_values(cells) ==
    LET usedRows == {r \in 1..Len(cells) : \E c \in 1..Len(cells[r]) : cells[r][c] # ""}
        usedCols == {c \in 1..Width(cells) : \E r \in 1..Len(cells) : CellAt(cells, r, c) # ""}
        nr == IF usedRows = {} THEN 0 ELSE CHOOSE r \in usedRows : \A q \in usedRows : q <= r
        nc == IF usedCols = {} THEN 0 ELSE CHOOSE c \in usedCols : \A q \in usedCols : q <= c
    IN  [r \in 1..nr |-> [c \in 1..nc |-> CellAt(cells, r, c)]]

\* worksheet.update(values): the range starting at A1 that values covers is
\* written; every cell outside it keeps what it held
update(cells, values) ==
    LET nr == Max(Len(cells), Len(values))
        nc == Max(Width(cells), Width(values))
    IN  get_values([r \in 1..nr |-> [c \in 1..nc |->
            IF r <= Len(values) /\ c <= Len(values[r]) THEN values[r][c]
            ELSE CellAt(cells, r, c)]])

\* empty_sheet: what it hands to sheet.update, given sheet.get_values()
eraser(sheet_values) ==
    <<sheet_values[1]>>
    \o [r \in 1..(Len(sheet_values) - 1) |-> [c \in 1..Len(sheet_values[1]) |-> ""]]

empty_sheet(cells) == update(cells, eraser(get_values(cells)))

------------------------------------------------------------------------------
(* log.txt and README.md *)

TrimThreshold == 21
KeepLines == 20

\* Mutant of trim_logs: one line too many is kept
trim_logs_KeepsThreshold(logs) ==
    IF Len(logs) >= TrimThreshold THEN SubSeq(logs, Len(logs) - TrimThreshold + 1, Len(logs))
    ELSE logs

\* trim_logs, on the list readlines() gives
trim_logs(logs) ==
    IF Len(logs) >= TrimThreshold THEN SubSeq(logs, Len(logs) - KeepLines + 1, Len(logs))
    ELSE logs

EndsWithNewline(s) == s # "" /\ SubSeq(s, Len(s), Len(s)) = "\n"

\* f.readlines(): the lines of a text, each with its line ending
RECURSIVE ReadLines(_)
ReadLines(text) ==
    LET hits == {i \in 1..Len(text) : SubSeq(text, i, i) = "\n"}
    IN  IF text = "" THEN <<>>
        ELSE IF hits = {} THEN <<text>>
        ELSE LET i == CHOOSE i \in hits : \A j \in hits : i <= j
             IN  <<SubSeq(text, 1, i)>> \o ReadLines(SubSeq(text, i + 1, Len(text)))

\* f.writelines(lines)
WriteLines(lines) == Join(lines, "")

\* The FileHandler appends text to the file whose lines are given
FileAppend(lines, text) ==
    IF Len(lines) > 0 /\ ~EndsWithNewline(Last(lines))
    THEN [lines EXCEPT ![Len(lines)] = @ \o text]
    ELSE Append(lines, text)

PadRight(s, n) == IF Len(s) >= n THEN s ELSE s \o SubSeq("      ", 1, n - Len(s))

LevelWidth == 6

\* LOG_FORMAT = "%(asctime)s  %(levelname)-6s %(message)s", and the line ending
LOG_FORMAT(asctime, levelname, message) ==
    asctime \o "  " \o PadRight(levelname, LevelWidth) \o " " \o message \o "\n"

\* %(asctime)s of the n-th invocation
Asctime(n) == "2022-04-1" \o ToString(n) \o " 06:00:01,250"

\* Mutant of add_log_to_readme: the summary is appended as a new line
add_log_to_readme_Appends(readme_text, logs) ==
    LET lines == ReadLines(readme_text)
    IN  IF Len(logs) = 0 \/ Len(lines) = 0 \/ Len(Split(Last(logs), "  ")) < 2
        THEN [ok |-> FALSE, text |-> readme_text]
        ELSE LET parts == Split(Last(logs), "  ")
                 entry == [i \in 1..Len(parts) |-> Strip(parts[i])]
             IN  [ok |-> TRUE,
                  text |-> WriteLines(Append(lines,
                              "\n- " \o Join(DelIndex(entry, 1).list, " UTC: ")))]

\* add_log_to_readme: the new content of README.md, ok = FALSE when it raises
add_log_to_readme(readme_text, logs) ==
    LET lines == ReadLines(readme_text)
    IN  IF Len(logs) = 0 THEN [ok |-> FALSE, text |-> readme_text]          \* logs[-1]
        ELSE
        LET parts == Split(Last(logs), "  ")
            most_recent_log_entry == [i \in 1..Len(parts) |-> Strip(parts[i])]
            deleted == DelIndex(most_recent_log_entry, 1)
        IN  IF ~deleted.ok THEN [ok |-> FALSE, text |-> readme_text]        \* del [1]
            ELSE IF Len(lines) = 0 THEN [ok |-> FALSE, text |-> readme_text] \* readme[-1]
            ELSE [ok |-> TRUE,
                  text |-> WriteLines([lines EXCEPT ![Len(lines)] =
                                          "- " \o Join(deleted.list, " UTC: ")])]

------------------------------------------------------------------------------
(* Inputs: the sheets and files a run can find *)

\* The columns of the responses sheet, by the names the rename gives them
FormColumns ==
    <<"Timestamp", "Calling", "PersonToCall", "ReleaseRequired", "Organization",
      "ReleaseRequired2", "CurrentOrganization", "FormSubmittedBy", "IdealStartDate",
      "ReleaseCurrentlyServing", "CurrentlyServing", "Moving?", "MovingDate", "Comments",
      "BishopApproval", "ExtendedAndAccepted", "Sustained", "Set Apart", "Recorded">>

\* The header the sheet shows for a column: the form's question where there is one
RawHeader(name) ==
    IF \E h \in DOMAIN simplified_name_map : simplified_name_map[h] = name
    THEN CHOOSE h \in DOMAIN simplified_name_map : simplified_name_map[h] = name
    ELSE name

FormHeader == [i \in 1..Len(FormColumns) |-> RawHeader(FormColumns[i])]

Reverse(s) == [i \in 1..Len(s) |-> s[Len(s) + 1 - i]]

Without(s, x) == LET Other(y) == y # x IN SelectSeq(s, Other)

HeaderLayouts ==
    {FormHeader, Reverse(FormHeader), Without(FormHeader, "Recorded"),
     Without(FormHeader, "Sustained"), Without(FormHeader, "Timestamp")}

MainLayouts == {FormHeader, Without(FormHeader, "Recorded")}

GoodTs == "4/10/2022 14:03:22"
BadTs == "sometime in April"

\* A submitted row, by its three fields that decide its fate
RowKind(ts, approval, recorded) == [ts |-> ts, approval |-> approval, recorded |-> recorded]

ApprovedOpen == RowKind(GoodTs, "Yes", "")
ApprovedRecorded == RowKind("12/5/2022 9:15:00", "  YES, approved", "x")
Unapproved == RowKind(GoodTs, "No", "")
EmptyApproval == RowKind(GoodTs, "", "")
BlankApproval == RowKind(GoodTs, "   ", "")
BadTimestamp == RowKind(BadTs, "Yes", "")
RecordedBlank == RowKind(GoodTs, "y", " ")
TabbedApproval == RowKind(GoodTs, "\tyes", "")

RowKinds ==
    {ApprovedOpen, ApprovedRecorded, Unapproved, EmptyApproval, BlankApproval,
     BadTimestamp, RecordedBlank, TabbedApproval}

MainRowKinds == {ApprovedOpen, ApprovedRecorded, EmptyApproval, BlankApproval, BadTimestamp}

\* The cell of row r under header h
FormCell(h, kind, r) ==
    CASE h = "Timestamp" -> kind.ts
      [] h = "Calling Approval " -> kind.approval
      [] h = "Recorded" -> kind.recorded
      [] OTHER -> Rename(h) \o " " \o ToString(r)

MakeForm(header, kinds) ==
    <<header>> \o [r \in 1..Len(kinds) |-> [c \in 1..Len(header) |-> FormCell(header[c], kinds[r], r)]]

SeqsUpTo(S, n) == UNION {[1..k -> S] : k \in 0..n}

\* An empty sheet, or a header and up to MaxRows submitted rows
Forms(layouts, kinds) ==
    {<<>>} \cup {MakeForm(h, ks) : h \in layouts, ks \in SeqsUpTo(kinds, MaxRows)}

\* A progress sheet as an earlier run or a user left it: the header of the
\* progress table, with "Notes" beside it when extra, and n rows
DestSheet(extra, n) ==
    LET header == IF extra THEN Append(keeps, "Notes") ELSE keeps
    IN  <<header>> \o [r \in 1..n |-> [c \in 1..Len(header) |-> "old " \o ToString(r)]]

Dests == {<<>>} \cup {DestSheet(x, n) : x \in BOOLEAN, n \in {0, 1, MaxDestRows}}

OldLevel(i) == IF i % 3 = 0 THEN "ERROR" ELSE "INFO"
OldMessage(i) == IF i % 3 = 0 THEN "Job failed" ELSE "Job successfully completed"

\* A log of n earlier daily entries
LogOfLen(n) ==
    [i \in 1..n |-> LOG_FORMAT("2022-03-" \o Pad2(i) \o " 06:00:01,250", OldLevel(i), OldMessage(i))]

Logs == {LogOfLen(n) : n \in {0, KeepLines - 1, KeepLines, TrimThreshold + 1}}

Readmes ==
    {"",
     "# Callings\n\nLast run:\n- never\n",
     "# Callings\n- 2022-04-09 06:00:01,250 UTC: Job failed"}

DefaultForm == MakeForm(FormHeader, <<ApprovedOpen, ApprovedRecorded>>)
DefaultDest == DestSheet(FALSE, 1)
DefaultLog == LogOfLen(2)
DefaultReadme == "# Callings\n\nLast run:\n- never\n"

FewForms ==
    {MakeForm(FormHeader, <<>>),
     MakeForm(FormHeader, <<ApprovedOpen, ApprovedOpen>>),
     MakeForm(FormHeader, <<ApprovedOpen, ApprovedRecorded, Unapproved>>)}

------------------------------------------------------------------------------
(* main() *)

Init ==
    /\ pc = "creds"
    /\ run = 1
    /\ \/ /\ form \in Forms(MainLayouts, MainRowKinds)
          /\ dest = DefaultDest /\ log = DefaultLog /\ readme = DefaultReadme
       \/ /\ form \in FewForms
          /\ dest \in Dests /\ log = DefaultLog /\ readme = DefaultReadme
       \/ /\ form = DefaultForm /\ dest = DefaultDest
          /\ log \in Logs /\ readme \in Readmes
    /\ calling_df = NoFrame
    /\ updated_df = NoFrame
    /\ raised_at = ""
    /\ hist = [dest0 |-> dest, log0 |-> log, readme0 |-> readme]

\* Mutant of Raise: the exception leaves main() uncaught
Raise_Propagates(step) ==
    /\ pc' = "crashed"
    /\ raised_at' = step

\* An exception inside the try block: control goes to the except clause
Raise(step) ==
    /\ pc' = "except"
    /\ raised_at' = step

\* lines 140-141: get_creds() and gspread.authorize
GetCreds ==
    /\ pc = "creds"
    /\ \/ pc' = "fetch" /\ UNCHANGED raised_at
       \/ Raise("creds")
    /\ UNCHANGED <<run, form, dest, log, readme, calling_df, updated_df, hist>>

\* lines 144-147: open the responses sheet, get_values(), make_callings_data
MakeCallingsData ==
    /\ pc = "fetch"
    /\ \/ /\ make_callings_data(form).ok
          /\ calling_df' = make_callings_data(form)
          /\ pc' = "filter" /\ UNCHANGED raised_at
       \/ /\ ~make_callings_data(form).ok
          /\ Raise("map") /\ UNCHANGED calling_df
       \/ Raise("fetch") /\ UNCHANGED calling_df
    /\ UNCHANGED <<run, form, dest, log, readme, updated_df, hist>>

\* Mutant of GetFilteredData: the destination is blanked before the filter runs
GetFilteredData_ClearsFirst ==
    /\ pc = "filter"
    /\ dest' = IF get_values(dest) = <<>> THEN dest ELSE empty_sheet(dest)
    /\ \/ /\ get_filtered_data(calling_df).ok
          /\ updated_df' = get_filtered_data(calling_df)
          /\ pc' = "open_dest" /\ UNCHANGED raised_at
       \/ /\ ~get_filtered_data(calling_df).ok
          /\ pc' = "except" /\ raised_at' = "filter" /\ UNCHANGED updated_df
    /\ UNCHANGED <<run, form, log, readme, calling_df, hist>>

\* line 149
GetFilteredData ==
    /\ pc = "filter"
    /\ \/ /\ get_filtered_data(calling_df).ok
          /\ updated_df' = get_filtered_data(calling_df)
          /\ pc' = "open_dest" /\ UNCHANGED raised_at
       \/ /\ ~get_filtered_data(calling_df).ok
          /\ Raise("filter") /\ UNCHANGED updated_df
    /\ UNCHANGED <<run, form, dest, log, readme, calling_df, hist>>

\* line 152: client.open("Calling_Approval_Progress").sheet1
OpenProgressSheet ==
    /\ pc = "open_dest"
    /\ \/ pc' = "clear" /\ UNCHANGED raised_at
       \/ Raise("open_dest")
    /\ UNCHANGED <<run, form, dest, log, readme, calling_df, updated_df, hist>>

\* line 155: empty_sheet(progress_sheet).  Of a sheet with no value at all
\* get_values() gives [[]] (nothing to blank) or [] (sheet_values[0] raises),
\* by the version of the library.
EmptySheet ==
    /\ pc = "clear"
    /\ \/ /\ get_values(dest) # <<>>
          /\ dest' = empty_sheet(dest)
          /\ pc' = "write" /\ UNCHANGED raised_at
       \/ /\ get_values(dest) = <<>>
          /\ pc' = "write" /\ UNCHANGED <<dest, raised_at>>
       \/ /\ get_values(dest) = <<>>
          /\ Raise("clear") /\ UNCHANGED dest
       \/ Raise("clear") /\ UNCHANGED dest
    /\ UNCHANGED <<run, form, log, readme, calling_df, updated_df, hist>>

\* lines 158-160: progress_sheet.update(header and rows of updated_df)
UpdateSheet ==
    /\ pc = "write"
    /\ \/ /\ dest' = update(dest, ToRows(updated_df))
          /\ pc' = "log_ok" /\ UNCHANGED raised_at
       \/ Raise("write") /\ UNCHANGED dest
    /\ UNCHANGED <<run, form, log, readme, calling_df, updated_df, hist>>

\* line 162: logger.info
LogSuccess ==
    /\ pc = "log_ok"
    /\ log' = FileAppend(log, LOG_FORMAT(Asctime(run), "INFO", "Job successfully completed"))
    /\ pc' = "trim"
    /\ UNCHANGED <<run, form, dest, readme, calling_df, updated_df, raised_at, hist>>

\* lines 163-164: the bare except, logger.error
LogFailure ==
    /\ pc = "except"
    /\ log' = FileAppend(log, LOG_FORMAT(Asctime(run), "ERROR", "Job failed"))
    /\ pc' = "trim"
    /\ UNCHANGED <<run, form, dest, readme, calling_df, updated_df, raised_at, hist>>

\* line 167
TrimLogs ==
    /\ pc = "trim"
    /\ log' = trim_logs(log)
    /\ pc' = "readme"
    /\ UNCHANGED <<run, form, dest, readme, calling_df, updated_df, raised_at, hist>>

\* line 168: an exception here is not caught and ends the process
AddLogToReadme ==
    /\ pc = "readme"
    /\ \/ /\ add_log_to_readme(readme, log).ok
          /\ readme' = add_log_to_readme(readme, log).text
          /\ pc' = "done"
       \/ /\ ~add_log_to_readme(readme, log).ok
          /\ pc' = "crashed" /\ UNCHANGED readme
    /\ UNCHANGED <<run, form, dest, log, calling_df, updated_df, raised_at, hist>>

\* The scheduler invokes main() again
NextRun ==
    /\ pc \in {"done", "crashed"}
    /\ run < MaxRuns
    /\ run' = run + 1
    /\ pc' = "creds"
    /\ calling_df' = NoFrame
    /\ updated_df' = NoFrame
    /\ raised_at' = ""
    /\ hist' = [hist EXCEPT !.dest0 = dest, !.log0 = log]
    /\ UNCHANGED <<form, dest, log, readme>>

Next ==
    \/ GetCreds
    \/ MakeCallingsData
    \/ GetFilteredData
    \/ OpenProgressSheet
    \/ EmptySheet
    \/ UpdateSheet
    \/ LogSuccess
    \/ LogFailure
    \/ TrimLogs
    \/ AddLogToReadme
    \/ NextRun

Spec == Init /\ [][Next]_vars

------------------------------------------------------------------------------
(* make_callings_data and get_filtered_data alone, on every form of the bounds *)

InitFilter ==
    /\ pc = "fetch"
    /\ run = 1
    /\ form \in Forms(HeaderLayouts, RowKinds)
    /\ dest = DefaultDest /\ log = DefaultLog /\ readme = DefaultReadme
    /\ calling_df = NoFrame
    /\ updated_df = NoFrame
    /\ raised_at = ""
    /\ hist = [dest0 |-> dest, log0 |-> log, readme0 |-> readme]

NextFilter == MakeCallingsData \/ GetFilteredData

SpecFilter == InitFilter /\ [][NextFilter]_vars

------------------------------------------------------------------------------
(* trim_logs alone, applied twice in a row to every log of the bounds *)

\* The logs of up to MaxLogLen consecutive daily entries
TrimInputs ==
    {SubSeq(LogOfLen(MaxLogLen), a, b) : a \in 1..(MaxLogLen + 1), b \in 0..MaxLogLen}

InitTrim ==
    /\ pc = "trim_first"
    /\ run = 1
    /\ log \in TrimInputs
    /\ form = DefaultForm /\ dest = DefaultDest /\ readme = DefaultReadme
    /\ calling_df = NoFrame
    /\ updated_df = NoFrame
    /\ raised_at = ""
    /\ hist = [dest0 |-> dest, log0 |-> log, readme0 |-> readme]

TrimLogsFirst ==
    /\ pc = "trim_first"
    /\ log' = trim_logs(log)
    /\ pc' = "trim_second"
    /\ UNCHANGED <<run, form, dest, readme, calling_df, updated_df, raised_at, hist>>

TrimLogsSecond ==
    /\ pc = "trim_second"
    /\ log' = trim_logs(log)
    /\ pc' = "trimmed_twice"
    /\ UNCHANGED <<run, form, dest, readme, calling_df, updated_df, raised_at, hist>>

NextTrim == TrimLogsFirst \/ TrimLogsSecond

SpecTrim == InitTrim /\ [][NextTrim]_vars

------------------------------------------------------------------------------
(* add_log_to_readme alone, on every last log line of the bounds *)

SpecExampleLine == "2024-01-01 10:00:00  INFO   Job successfully completed"

LogLines ==
    {LOG_FORMAT(ts, lvl, msg) :
        ts \in {"2024-01-01 10:00:00", "2022-04-10 06:00:01,250"},
        lvl \in {"INFO", "ERROR", "WARNING", "CRITICAL"},
        msg \in {"Job successfully completed", "Job failed", "took  2 s", ""}}
    \cup {SpecExampleLine, "\n", "no separator here\n", "a    b\n", "x  y"}

InitMirror ==
    /\ pc = "readme"
    /\ run = 1
    /\ \E k \in {0, 2} : \E line \in LogLines : log = Append(LogOfLen(k), line)
    /\ readme \in Readmes
    /\ form = DefaultForm /\ dest = DefaultDest
    /\ calling_df = NoFrame
    /\ updated_df = NoFrame
    /\ raised_at = ""
    /\ hist = [dest0 |-> dest, log0 |-> log, readme0 |-> readme]

NextMirror == AddLogToReadme

SpecMirror == InitMirror /\ [][NextMirror]_vars

------------------------------------------------------------------------------
(* Properties *)

\* The rows of df that the filter must keep, by position
Selected(df) ==
    {i \in 1..Len(df.values) :
        /\ Col(df, "cleaned_approval_text")[i] = "y"
        /\ Col(df, "Recorded")[i] = ""}

\* The j-th smallest member of a set of row positions
Nth(S, j) == CHOOSE i \in S : Cardinality({q \in S : q <= i}) = j

\* C1: whenever get_filtered_data returns, its output has the 10 fixed columns
\* in the fixed order and holds, in source order, exactly the rows of its input
\* with cleaned_approval_text = "y" and Recorded = "", each projected to those
\* columns, whatever the column order of the source.
C1_FilterExact ==
    pc = "open_dest" =>
        LET cols == <<"DateRequested", "PersonToCall", "Calling", "Organization",
                      "FormSubmittedBy", "IdealStartDate", "BishopApproval",
                      "ExtendedAndAccepted", "Sustained", "Set Apart">>
            sel == Selected(calling_df)
        IN  /\ updated_df.columns = cols
            /\ Len(updated_df.values) = Cardinality(sel)
            /\ \A j \in 1..Len(updated_df.values) :
                   /\ Len(updated_df.values[j]) = 10
                   /\ \A k \in 1..10 :
                          updated_df.values[j][k] = Col(calling_df, cols[k])[Nth(sel, j)]

\* C1 witness: a source in another column order, of which the filter kept one
\* row and dropped another.
C1_Witness ==
    /\ pc = "open_dest"
    /\ form[1][1] = "Recorded"
    /\ Len(updated_df.values) = 1
    /\ Len(calling_df.values) = 2
    /\ updated_df.values[1][2] = "PersonToCall 2"

\* The data rows of the form whose approval cell is empty or only whitespace
BlankApprovalRows ==
    IF Len(form) = 0 \/ ~\E c \in 1..Len(form[1]) : form[1][c] = "Calling Approval " THEN {}
    ELSE LET c == CHOOSE c \in 1..Len(form[1]) : form[1][c] = "Calling Approval "
         IN  {r \in 1..(Len(form) - 1) : Strip(form[r + 1][c]) = ""}

\* A form that has every column the run reads and only parsable timestamps
FormSound ==
    /\ Len(form) > 0
    /\ \A i \in 1..Len(FormHeader) : \E c \in 1..Len(form[1]) : form[1][c] = FormHeader[i]
    /\ \A r \in 2..Len(form) : \A c \in 1..Len(form[1]) :
           form[1][c] = "Timestamp" => ParseTimestamp(form[r][c]).ok

\* The cell of data row r of the form under header h
FormValue(r, h) == form[r + 1][CHOOSE c \in 1..Len(form[1]) : form[1][c] = h]

\* C7: with a row whose approval is empty or blank in an otherwise sound form,
\* neither the mapping nor the filtering raises; the row gets the NaN sentinel
\* and is left out of the filtered rows, every other approved and unrecorded
\* row is in them, and the write puts the filtered rows into the destination.
C7_EmptyApprovalTolerated ==
    (FormSound /\ BlankApprovalRows # {}) =>
        /\ raised_at \notin {"map", "filter"}
        /\ pc \in {"filter", "open_dest", "clear", "write", "log_ok"} =>
               \A r \in BlankApprovalRows : Col(calling_df, "cleaned_approval_text")[r] = NaN
        /\ pc \in {"open_dest", "clear", "write", "log_ok"} =>
               \A r \in 1..(Len(form) - 1) :
                   (\E j \in 1..Len(updated_df.values) :
                        updated_df.values[j][2] = FormValue(r, "Full Name of the Person Proposed for the Calling:"))
                   <=> /\ r \notin BlankApprovalRows
                       /\ SubSeq(Lower(Strip(FormValue(r, "Calling Approval "))), 1, 1) = "y"
                       /\ FormValue(r, "Recorded") = ""
        /\ pc = "log_ok" =>
               /\ Len(dest) = Len(updated_df.values) + 1
               /\ \A j \in 1..Len(updated_df.values) : \A k \in 1..Len(keeps) :
                      dest[j + 1][k] = updated_df.values[j][k]

\* C7 witness: a run wrote the approved row of a form that also holds a row
\* with an empty approval.
C7_Witness ==
    /\ pc = "log_ok"
    /\ FormSound
    /\ \E r \in BlankApprovalRows : FormValue(r, "Calling Approval ") = ""
    /\ Len(updated_df.values) = 1
    /\ Len(dest) = 2


\* The entry the logging call of this run writes on failure
FailedEntry == LOG_FORMAT(Asctime(run), "ERROR", "Job failed")

\* The steps inside the try block
TrySteps == {"creds", "fetch", "filter", "open_dest", "clear", "write", "log_ok"}

\* C2 (as claimed): after a sync phase without error the destination holds the
\* header row and the filtered rows and nothing else, whatever it held before.
C2_DestinationExactlyFiltered ==
    (pc \in {"log_ok", "trim", "readme", "done"} /\ raised_at = "") =>
        dest = get_values(ToRows(updated_df))

\* C3: an exception in any step of the try block takes the run to the except
\* clause and nowhere else; the except clause appends "Job failed" and goes on
\* to the trim; after the except clause as after a success, trim_logs runs,
\* and add_log_to_readme runs next and only then the run ends.
C3_FailureCaughtThenTrimThenMirror ==
    [][ /\ (pc \in TrySteps /\ pc' \notin TrySteps) => pc' \in {"except", "trim"}
        /\ (raised_at' # raised_at /\ raised_at' # "") => (pc \in TrySteps /\ pc' = "except")
        /\ pc = "except" => (pc' = "trim" /\ Len(log') > 0 /\ Last(log') = FailedEntry /\ dest' = dest)
        /\ pc' = "trim" => pc \in {"except", "log_ok"}
        /\ pc = "trim" => pc' = "readme"
        /\ pc' = "readme" => pc = "trim"
        /\ pc = "readme" => pc' \in {"done", "crashed"}
        /\ pc' \in {"done", "crashed"} => pc = "readme"
      ]_vars

\* C3 witness: a run whose fetch raised has ended normally, with the failure
\* entry in the log and mirrored into the README.
C3_Witness ==
    /\ pc = "done"
    /\ raised_at = "fetch"
    /\ Last(log) = FailedEntry
    /\ Last(ReadLines(readme)) = "- " \o Asctime(run) \o " UTC: Job failed"

\* C4: after trim_logs, once or twice in a row, the file holds the last 20
\* lines of the original, in order, when that had 21 lines or more, and the
\* original when it had 20 or fewer.
C4_TrimKeepsLast20 ==
    pc \in {"trim_second", "trimmed_twice"} =>
        LET n == Len(hist.log0)
        IN  /\ n >= 21 => /\ Len(log) = 20
                          /\ \A i \in 1..20 : log[i] = hist.log0[n - 20 + i]
            /\ n <= 20 => log = hist.log0

\* C4 witness: a log of 25 lines trimmed twice holds its last 20.
C4_Witness ==
    /\ pc = "trimmed_twice"
    /\ Len(hist.log0) = 25
    /\ Len(log) = 20
    /\ log[1] = hist.log0[6]

\* The stripped fields of the last log line
LastLogFields ==
    LET parts == Split(Last(log), "  ") IN [i \in 1..Len(parts) |-> Strip(parts[i])]

\* C5: when the last log line has at least three fields and the README is not
\* empty, add_log_to_readme succeeds and the last line of the README is "- "
\* and the fields but the second joined by " UTC: ", with no line ending; the
\* line of the example gives the text of the example.
C5_MirrorFormat ==
    (pc \in {"done", "crashed"} /\ hist.readme0 # "" /\ Len(LastLogFields) >= 3) =>
        LET f == LastLogFields
            lines == ReadLines(readme)
        IN  /\ pc = "done"
            /\ Last(lines) = "- " \o Join(<<f[1]>> \o SubSeq(f, 3, Len(f)), " UTC: ")
            /\ ~EndsWithNewline(readme)
            /\ Last(log) = "2024-01-01 10:00:00  INFO   Job successfully completed"
                   => Last(lines) = "- 2024-01-01 10:00:00 UTC: Job successfully completed"

\* C5 witness: the example of the specification has been mirrored.
C5_Witness ==
    /\ pc = "done"
    /\ Last(log) = "2024-01-01 10:00:00  INFO   Job successfully completed"
    /\ Len(ReadLines(hist.readme0)) = 4
    /\ Last(ReadLines(readme)) = "- 2024-01-01 10:00:00 UTC: Job successfully completed"

\* C6: from a README that is not empty, the README keeps its number of lines
\* and every line but the last through every run, and a finished run has put
\* its own entry into the last line.
C6_OnlyLastLineReplaced ==
    hist.readme0 # "" =>
        LET a == ReadLines(hist.readme0)
            b == ReadLines(readme)
        IN  /\ Len(b) = Len(a)
            /\ \A i \in 1..(Len(a) - 1) : b[i] = a[i]
            /\ pc = "done" => SubSeq(Last(b), 1, 25) = "- " \o Asctime(run)

\* C6 witness: the second run has rewritten the last line of a README of
\* several lines.
C6_Witness ==
    /\ pc = "done"
    /\ run = 2
    /\ Len(ReadLines(hist.readme0)) = 4
    /\ readme # hist.readme0
    /\ Len(ReadLines(readme)) = 4

\* C8 (as claimed): when the write raises after the clear, no cell of the
\* destination, the first row included, holds a value.
C8_ClearedDestinationEmpty ==
    raised_at = "write" => get_values(dest) = <<>>

\* C9 (as claimed): trim_logs runs before the entry of the run is appended, so
\* the log it reads is the log the run found.
C9_TrimBeforeAppend ==
    pc = "trim" => log = hist.log0

\* C10: a run that raised before the clear step leaves the destination as it
\* found it, and "Job failed" is the entry it logs.
C10_EarlyFailureLeavesDestination ==
    raised_at \in {"creds", "fetch", "map", "filter", "open_dest"} =>
        /\ dest = hist.dest0
        /\ pc \in {"trim", "readme", "done", "crashed"} =>
               (Len(log) > 0 /\ Last(log) = FailedEntry)

\* C10 witness: a run whose filter raised on a missing column has ended, the
\* destination still holding its rows.
C10_Witness ==
    /\ pc = "done"
    /\ raised_at = "filter"
    /\ dest = hist.dest0
    /\ Len(dest) = 2
    /\ Last(log) = FailedEntry

====
